---- MODULE Spec2Model ----
(***************************************************************************)
(* Model of docs/notebooks/Part6_custom_learned_optimizers.ipynb: the      *)
(* three example learned optimizers MetaSGDWD, PerParamMLP and             *)
(* HParamControllerLOPT, and the notebook's cells.                         *)
(*                                                                         *)
(* Numbers are exact rationals <<numerator, denominator>> in lowest terms  *)
(* (floating-point rounding is not modelled).  An array leaf is modelled   *)
(* by one of its elements: every operation of the notebook on leaves is    *)
(* element-wise.  A parameter tree is a function from its keys to leaves.  *)
(* Logarithms are kept in units of ln(10), so that exp and log are exact   *)
(* on the powers of ten the constructors' defaults (1e-3, 1e-2) are.       *)
(***************************************************************************)
EXTENDS Integers, Sequences, FiniteSets, TLC

\* ------------------------------------------------------------------------
\* Bounds of the model
\* ------------------------------------------------------------------------

\* number of state records created in one behaviour (opt.init and opt.update)
MaxStates == 3

\* ------------------------------------------------------------------------
\* Exact rational arithmetic (the jnp scalar operations)
\* ------------------------------------------------------------------------

Abs(n) == IF n < 0 THEN -n ELSE n

RECURSIVE GCD(_, _)
GCD(a, b) == IF b = 0 THEN a ELSE GCD(b, a % b)

\* the rational n/d (d # 0) in lowest terms with a positive denominator
Q(n, d) ==
  LET s == IF d < 0 THEN -1 ELSE 1
      g == GCD(Abs(n), Abs(d))
  IN  <<(s * n) \div g, (s * d) \div g>>

Whole(n) == <<n, 1>>

LCM(a, b) == (a \div GCD(a, b)) * b

Add(x, y) ==
  LET d == LCM(x[2], y[2])
  IN  Q(x[1] * (d \div x[2]) + y[1] * (d \div y[2]), d)

Neg(x) == <<-x[1], x[2]>>

Sub(x, y) == Add(x, Neg(y))

Mul(x, y) ==
  LET g1 == GCD(Abs(x[1]), y[2])
      g2 == GCD(Abs(y[1]), x[2])
  IN  Q((x[1] \div g1) * (y[1] \div g2), (x[2] \div g2) * (y[2] \div g1))

Less(x, y) == x[1] * y[2] < y[1] * x[2]

RECURSIVE Pow10(_)
Pow10(k) == IF k = 0 THEN 1 ELSE 10 * Pow10(k - 1)

\* jnp.exp, argument in units of ln(10): exp(k ln 10) = 10^k.  The argument
\* is an integer in every call the model makes (a fractional part is dropped).
Exp(x) ==
  LET k == x[1] \div x[2]
  IN  IF k >= 0 THEN Q(Pow10(k), 1) ELSE Q(1, Pow10(-k))

\* jnp.log of a positive number, result in units of ln(10), computed digit by
\* digit; exact on powers of ten (the integer part of log10 otherwise).
RECURSIVE Log(_)
Log(x) ==
  IF Less(x, Whole(1)) THEN Sub(Log(Mul(x, Whole(10))), Whole(1))
  ELSE IF Less(x, Whole(10)) THEN Whole(0)
  ELSE Add(Log(Mul(x, Q(1, 10))), Whole(1))

\* ------------------------------------------------------------------------
\* Python values
\* ------------------------------------------------------------------------

\* Python's None for the model_state argument and field
None == "None"

\* an optional argument or variable: <<>> when absent, <<v>> when given
Absent == <<>>
Given(v) == <<v>>

\* jax.tree_map over dict trees: the trees must have the same structure
SameStructure(t1, t2) == DOMAIN t1 = DOMAIN t2

\* jax.tree_map(f, t1, t2, ...) is written [k \in DOMAIN t1 |-> f(t1[k],
\* t2[k], ...)]: f gets the leaves in the order the trees are given in
\* jnp.zeros_like mapped over a tree
zeros_like(t) == [k \in DOMAIN t |-> Whole(0)]

\* ------------------------------------------------------------------------
\* Inputs
\* ------------------------------------------------------------------------

\* parameter trees given to opt.init (the demo cells' {"a": .., "b": ..})
ParamTrees ==
  { [a |-> Whole(1), b |-> Whole(2)],
    [a |-> Whole(2)] }

\* gradient trees given to opt.update
GradTrees ==
  { [a |-> Whole(-1), b |-> Whole(1)],
    [a |-> Whole(1)] }

\* values of the model_state argument
ModelStates == {"bn"}
ModelStateArgs == {Absent} \cup {Given(s) : s \in ModelStates}

\* values of the loss argument of update: absent (None) or a number
LossArgs == {Absent, Given(Whole(0)), Given(Whole(1))}

\* jax.random keys
Keys == {0, 1}

VARIABLES
  lopt,        \* the LearnedOptimizer instance: its class and constructor fields
  theta,       \* the notebook variable theta: Absent, or Given(meta-parameters)
  opt,         \* the Optimizer made by opt_fn: Absent, or Given(captured theta)
  states,      \* every state record created so far, in creation order
  calls,       \* for each record of states, the call that created it
  opt_state,   \* the caller's current state: an index of states, 0 when unbound
  last_call,   \* the last call made, with its arguments
  raised,      \* the exception the last call raised, "none" when it returned
  bound,       \* the names bound in the notebook's kernel
  ran,         \* the notebook cells that ran to their end
  cell_result  \* the last cell run and the exception that stopped it

nbvars == <<bound, ran, cell_result>>

vars == <<lopt, theta, opt, states, calls, opt_state, last_call, raised,
          bound, ran, cell_result>>

\* a call and its arguments (0 or Absent for the arguments it does not take)
Call(op, key, src, tree, loss, model_state) ==
  [op |-> op, key |-> key, src |-> src, tree |-> tree, loss |-> loss,
   model_state |-> model_state]

\* the default None of an omitted keyword argument
DefaultNone(arg) == IF arg = Absent THEN None ELSE arg[1]

\* ------------------------------------------------------------------------
\* Example 1: MetaSGDWD (meta-learned learning rate and weight decay)
\* ------------------------------------------------------------------------

\* constructor arguments <<initial_lr, initial_wd>> tried: the defaults
\* <<1e-3, 1e-2>>, and <<1e-1, 1e-3>>
MetaSGDWD_args == { <<Q(1, 1000), Q(1, 100)>>, <<Q(1, 10), Q(1, 1000)>> }

\* MetaSGDWD.__init__
MetaSGDWD_new(initial_lr, initial_wd) ==
  [cls |-> "MetaSGDWD", initial_lr |-> initial_lr, initial_wd |-> initial_wd]

\* a faulty init: the two hyper parameters exchanged
MetaSGDWD_init_exchanged(self, key) ==
  [log_lr |-> Log(self.initial_wd), log_wd |-> Log(self.initial_lr)]

\* MetaSGDWD.init(key): the key is not used
MetaSGDWD_init(self, key) ==
  [log_lr |-> Log(self.initial_lr), log_wd |-> Log(self.initial_wd)]

\* meta-parameters an outer meta-training could hand to opt_fn instead
MetaSGDWD_trained == { [log_lr |-> Whole(-2), log_wd |-> Whole(-3)] }

\* LOptState(params, model_state, iteration)
LOptState(params, model_state, iteration) ==
  [params |-> params, model_state |-> model_state, iteration |-> iteration]

\* MetaSGDWD.opt_fn._Opt.init
MetaSGDWD_Opt_init(th, params, model_state) ==
  LOptState(params, model_state, 0)

\* _update_one of MetaSGDWD's update
MetaSGDWD_update_one(p, g, lr, wd) == Sub(Sub(p, Mul(g, lr)), Mul(p, wd))

\* a faulty update: only the leaves with a positive gradient are returned
MetaSGDWD_Opt_update_drops_leaves(th, st, grads, model_state) ==
  LET lr == Exp(th.log_lr)
      wd == Exp(th.log_wd)
      next_params ==
        [k \in {k \in DOMAIN st.params : Less(Whole(0), grads[k])} |->
           MetaSGDWD_update_one(st.params[k], grads[k], lr, wd)]
  IN  LOptState(next_params, model_state, st.iteration + 1)

\* a faulty update: the iteration is copied, not incremented
MetaSGDWD_Opt_update_same_iteration(th, st, grads, model_state) ==
  LET lr == Exp(th.log_lr)
      wd == Exp(th.log_wd)
      next_params ==
        [k \in DOMAIN st.params |->
           MetaSGDWD_update_one(st.params[k], grads[k], lr, wd)]
  IN  LOptState(next_params, model_state, st.iteration)

\* MetaSGDWD.opt_fn._Opt.update (grads has the structure of the params)
MetaSGDWD_Opt_update(th, st, grads, model_state) ==
  LET lr == Exp(th.log_lr)
      wd == Exp(th.log_wd)
      next_params ==
        [k \in DOMAIN st.params |->
           MetaSGDWD_update_one(st.params[k], grads[k], lr, wd)]
  IN  LOptState(next_params, model_state, st.iteration + 1)

\* ------------------------------------------------------------------------
\* Example 2: PerParamMLP (an MLP applied to every parameter)
\* ------------------------------------------------------------------------

\* hidden_size of the MLP (the notebook's default is 64)
HiddenSize == 2

\* constructor arguments tried: the default decay 0.9, and 0.5
Decays == {Q(9, 10), Q(1, 2)}

\* PerParamMLP.__init__
PerParamMLP_new(decay, hidden_size) ==
  [cls |-> "PerParamMLP", decay |-> decay, hidden_size |-> hidden_size]

RECURSIVE SumSeq(_)
SumSeq(s) == IF s = <<>> THEN Whole(0) ELSE Add(Head(s), SumSeq(Tail(s)))

\* hk.Linear: x @ w + b, with w of shape [inputs, outputs]
Linear(w, b, x) ==
  [j \in 1..Len(b) |->
     Add(SumSeq([i \in 1..Len(x) |-> Mul(x[i], w[i][j])]), b[j])]

relu(x) == IF Less(x, Whole(0)) THEN Whole(0) ELSE x

\* hk.nets.MLP([hidden_size, 2]): linear, relu, linear
MLP(nn, x) ==
  LET h == Linear(nn.w0, nn.b0, x)
  IN  Linear(nn.w1, nn.b1, [j \in 1..Len(h) |-> relu(h[j])])

\* forward(grads, momentum, params) of PerParamMLP.__init__, applied with the
\* weights nn (parent.net.apply)
forward(nn, grads, momentum, params) ==
  LET features == <<params, momentum, grads>>
      outs == MLP(nn, features)
      scale == outs[1]
      mag == outs[2]
  IN  Mul(Mul(scale, Q(1, 100)), Exp(Mul(mag, Q(1, 100))))

\* self.net.init(key, ...): weights drawn from the key, zero biases
net_init(key, hidden_size) ==
  [w0 |-> [i \in 1..3 |->
             [j \in 1..hidden_size |-> Whole(((i + j + key) % 3) - 1)]],
   b0 |-> [j \in 1..hidden_size |-> Whole(0)],
   w1 |-> [j \in 1..hidden_size |-> <<Whole(j + key), Whole(0)>>],
   b1 |-> <<Whole(0), Whole(0)>>]

\* PerParamMLP.init(key)
PerParamMLP_init(self, key) == [nn |-> net_init(key, self.hidden_size)]

\* meta-parameters an outer meta-training could hand to opt_fn instead
PerParamMLP_trained ==
  { [nn |-> [net_init(0, HiddenSize) EXCEPT !.b1 = <<Whole(1), Whole(100)>>]] }

\* PerParamState(params, model_state, iteration, momentums)
PerParamState(params, model_state, iteration, momentums) ==
  [params |-> params, model_state |-> model_state, iteration |-> iteration,
   momentums |-> momentums]

\* PerParamMLP.opt_fn._Opt.init
PerParamMLP_Opt_init(th, params, model_state) ==
  PerParamState(params, model_state, 0, zeros_like(params))

\* a faulty momentum: the weights of m and g exchanged
update_one_momentum_exchanged(parent, m, g) ==
  Add(Mul(m, Sub(Whole(1), parent.decay)), Mul(g, parent.decay))

\* _update_one_momentum
update_one_momentum(parent, m, g) ==
  Add(Mul(m, parent.decay), Mul(g, Sub(Whole(1), parent.decay)))

\* _update_one(g, m, p) of PerParamMLP's update; update maps it over
\* (opt_state.params, grads, next_moms), in that order
PerParamMLP_update_one(parent, th, g, m, p) ==
  LET step == forward(th.nn, g, m, p)
  IN  Sub(p, step)

\* a different update: an omitted model_state keeps the input state's
PerParamMLP_Opt_update_keeps_model_state(parent, th, st, grads, model_state) ==
  LET next_moms ==
        [k \in DOMAIN st.momentums |->
           update_one_momentum(parent, st.momentums[k], grads[k])]
      next_params ==
        [k \in DOMAIN st.params |->
           PerParamMLP_update_one(parent, th, st.params[k], grads[k],
                                  next_moms[k])]
  IN  PerParamState(next_params,
                    IF model_state = None THEN st.model_state ELSE model_state,
                    st.iteration + 1, next_moms)

\* PerParamMLP.opt_fn._Opt.update (grads has the structure of the params)
PerParamMLP_Opt_update(parent, th, st, grads, model_state) ==
  LET next_moms ==
        [k \in DOMAIN st.momentums |->
           update_one_momentum(parent, st.momentums[k], grads[k])]
      next_params ==
        [k \in DOMAIN st.params |->
           PerParamMLP_update_one(parent, th, st.params[k], grads[k],
                                  next_moms[k])]
  IN  PerParamState(next_params, model_state, st.iteration + 1, next_moms)

\* ------------------------------------------------------------------------
\* Example 3: HParamControllerLOPT (an RNN sets the learning rate)
\* ------------------------------------------------------------------------

HParamControllerLOPT_new == [cls |-> "HParamControllerLOPT"]

\* hk.LSTM is a library cell; it is modelled with one hidden unit and with
\* saturating activations: a threshold for the sigmoid, a clip for tanh.
sigmoid(x) == IF Less(x, Whole(0)) THEN Whole(0) ELSE Whole(1)

tanh(x) ==
  IF Less(x, Whole(-1)) THEN Whole(-1)
  ELSE IF Less(Whole(1), x) THEN Whole(1) ELSE x

\* rnn_mod().initial_state(batch_size=1): zeros
initial_state_fn == [hidden |-> Whole(0), cell |-> Whole(0)]

\* mod(input, hidden_state) of hk.LSTM: gates i, g, f, o from input and hidden
LSTM(w, input, prev) ==
  LET gate(k) == Add(Add(Mul(w[k][1], input), Mul(w[k][2], prev.hidden)),
                     w[k][3])
      i == sigmoid(gate(1))
      g == tanh(gate(2))
      f == sigmoid(Add(gate(3), Whole(1)))
      o == sigmoid(gate(4))
      c == Add(Mul(f, prev.cell), Mul(i, g))
      h == Mul(o, tanh(c))
  IN  <<h, [hidden |-> h, cell |-> c]>>

\* forward_fn(hidden_state, input), applied with the weights rnn_params:
\* returns <<next_state, lr>>
forward_fn(rnn_params, hidden_state, input) ==
  LET out == LSTM(rnn_params.lstm, input, hidden_state)
      output == out[1]
      next_state == out[2]
      log_lr == Add(Mul(rnn_params.linear[1], output), rnn_params.linear[2])
  IN  <<next_state, Mul(Exp(log_lr), Q(1, 100))>>

\* forward_fn.init(key, ...): weights drawn from the key
forward_fn_init(key) ==
  IF key % 2 = 0
  THEN [lstm |-> << <<Whole(1), Whole(0), Whole(0)>>,
                    <<Whole(1), Whole(1), Whole(0)>>,
                    <<Whole(-2), Whole(0), Whole(0)>>,
                    <<Whole(1), Whole(1), Whole(0)>> >>,
        linear |-> <<Whole(1), Whole(0)>>]
  ELSE [lstm |-> << <<Whole(1), Whole(-1), Whole(0)>>,
                    <<Whole(-1), Whole(1), Whole(0)>>,
                    <<Whole(0), Whole(1), Whole(0)>>,
                    <<Whole(0), Whole(0), Whole(0)>> >>,
        linear |-> <<Whole(-1), Whole(1)>>]

\* HParamControllerLOPT.init(key)
HParamControllerLOPT_init(self, key) ==
  [rnn_params |-> forward_fn_init(key),
   initial_rnn_hidden_state |-> initial_state_fn]

\* meta-parameters an outer meta-training could hand to opt_fn instead
HParamControllerLOPT_trained ==
  { [rnn_params |-> forward_fn_init(0),
     initial_rnn_hidden_state |-> [hidden |-> Whole(1), cell |-> Whole(1)]] }

\* HParamControllerInnerOptState(params, model_state, iteration, rnn_hidden_state)
HParamControllerInnerOptState(params, model_state, iteration, rnn_hidden_state) ==
  [params |-> params, model_state |-> model_state, iteration |-> iteration,
   rnn_hidden_state |-> rnn_hidden_state]

\* a faulty init: a fresh zero RNN state, not the meta-learned one
HParamControllerLOPT_Opt_init_zero_state(th, params, model_state) ==
  HParamControllerInnerOptState(params, model_state, 0, initial_state_fn)

\* HParamControllerLOPT.opt_fn._Opt.init
HParamControllerLOPT_Opt_init(th, params, model_state) ==
  HParamControllerInnerOptState(params, model_state, 0,
                                th.initial_rnn_hidden_state)

\* update_one of HParamControllerLOPT's update
HParamControllerLOPT_update_one(p, g, lr) == Sub(p, Mul(g, lr))

\* a different update: an omitted model_state keeps the input state's
HParamControllerLOPT_Opt_update_keeps_model_state(th, st, grads, loss, model_state) ==
  LET out == forward_fn(th.rnn_params, st.rnn_hidden_state, loss)
      next_params ==
        [k \in DOMAIN st.params |->
           HParamControllerLOPT_update_one(st.params[k], grads[k], out[2])]
  IN  HParamControllerInnerOptState(
        next_params,
        IF model_state = None THEN st.model_state ELSE model_state,
        st.iteration + 1, out[1])

\* a faulty update: the RNN is fed a gradient leaf, not the loss
HParamControllerLOPT_Opt_update_gradient_feature(th, st, grads, loss, model_state) ==
  LET out == forward_fn(th.rnn_params, st.rnn_hidden_state, grads["a"])
      next_params ==
        [k \in DOMAIN st.params |->
           HParamControllerLOPT_update_one(st.params[k], grads[k], out[2])]
  IN  HParamControllerInnerOptState(next_params, model_state,
                                    st.iteration + 1, out[1])

\* a faulty update: the RNN restarts from theta's initial hidden state
HParamControllerLOPT_Opt_update_from_initial(th, st, grads, loss, model_state) ==
  LET out == forward_fn(th.rnn_params, th.initial_rnn_hidden_state, loss)
      next_params ==
        [k \in DOMAIN st.params |->
           HParamControllerLOPT_update_one(st.params[k], grads[k], out[2])]
  IN  HParamControllerInnerOptState(next_params, model_state,
                                    st.iteration + 1, out[1])

\* HParamControllerLOPT.opt_fn._Opt.update, after its assertion (loss is a
\* number and grads has the structure of the params)
HParamControllerLOPT_Opt_update(th, st, grads, loss, model_state) ==
  LET batched_loss == loss
      out == forward_fn(th.rnn_params, st.rnn_hidden_state, batched_loss)
      next_rnn_state == out[1]
      lr == out[2]
      next_params ==
        [k \in DOMAIN st.params |->
           HParamControllerLOPT_update_one(st.params[k], grads[k], lr)]
  IN  HParamControllerInnerOptState(next_params, model_state,
                                    st.iteration + 1, next_rnn_state)

\* ------------------------------------------------------------------------
\* The notebook: its code cells, the names each statement reads and binds
\* ------------------------------------------------------------------------

\* a statement: the global names it reads when it runs (those of the function
\* bodies it calls included) and the names it binds
Stmt(reads, binds) == [reads |-> reads, binds |-> binds]

\* the code cells in document order
CellOrder ==
  << "imports",
     "LOptState", "MetaSGDWD", "demo_aa03f84e",
     "PerParamState", "PerParamMLP", "demo_8936a5e7", "demo_054ece76",
     "demo_6bd412f9",
     "HParamControllerInnerOptState", "rnn_helpers", "HParamControllerLOPT",
     "demo_a8d86e19" >>

CellNames == {CellOrder[i] : i \in 1..Len(CellOrder)}

\* the example a cell belongs to (0: the import cell)
Example(c) ==
  CASE c = "imports" -> 0
    [] c \in {"LOptState", "MetaSGDWD", "demo_aa03f84e"} -> 1
    [] c \in {"PerParamState", "PerParamMLP", "demo_8936a5e7",
              "demo_054ece76", "demo_6bd412f9"} -> 2
    [] OTHER -> 3

\* the statements of a cell
Cell(c) ==
  CASE c = "imports" ->
         << Stmt({}, {"flax", "Any", "jnp", "jax", "lopt_base", "opt_base"}) >>
    [] c = "LOptState" ->
         << Stmt({"flax", "Any", "jnp"}, {"LOptState"}) >>
    [] c = "MetaSGDWD" ->
         << Stmt({"Any"}, {"MetaParams"}),
            Stmt({"lopt_base", "MetaParams", "opt_base"}, {"MetaSGDWD"}) >>
    [] c = "demo_aa03f84e" ->
         << Stmt({"MetaSGDWD"}, {"lopt"}),
            Stmt({"jax"}, {"key"}),
            Stmt({"lopt", "key", "jnp"}, {"theta"}),
            Stmt({"lopt", "theta", "opt_base", "LOptState"}, {"opt"}),
            Stmt({}, {"fake_params"}),
            Stmt({"opt", "fake_params", "LOptState", "jnp"}, {"opt_state"}),
            Stmt({}, {"fake_grads"}),
            Stmt({"opt", "opt_state", "fake_grads", "jnp", "jax", "LOptState"},
                 {"new_opt_state"}),
            Stmt({"opt", "new_opt_state"}, {}) >>
    [] c = "PerParamState" ->
         << Stmt({"flax", "Any", "jnp"}, {"PerParamState"}) >>
    [] c = "PerParamMLP" ->
         << Stmt({}, {"hk"}),
            Stmt({"lopt_base", "MetaParams", "opt_base"}, {"PerParamMLP"}) >>
    [] c = "demo_8936a5e7" ->
         << Stmt({"PerParamMLP", "hk"}, {"lopt"}),
            Stmt({"jax"}, {"key"}),
            Stmt({"lopt", "key", "jnp", "hk"}, {"theta"}),
            Stmt({"jax", "theta"}, {}) >>
    [] c = "demo_054ece76" ->
         << Stmt({"lopt", "theta", "opt_base", "LOptState"}, {"opt"}),
            Stmt({"jnp"}, {"fake_params"}),
            Stmt({"opt", "fake_params", "jax", "jnp", "PerParamState"},
                 {"opt_state"}),
            Stmt({"jnp"}, {"fake_grads"}),
            Stmt({"opt", "opt_state", "fake_grads", "jax", "jnp", "hk",
                  "PerParamState"}, {"new_opt_state"}) >>
    [] c = "demo_6bd412f9" ->
         << Stmt({"opt", "new_opt_state"}, {}),
            Stmt({"new_opt_state"}, {}) >>
    [] c = "HParamControllerInnerOptState" ->
         << Stmt({"flax", "Any"}, {"HParamControllerInnerOptState"}) >>
    [] c = "rnn_helpers" ->
         << Stmt({}, {"hk"}),
            Stmt({}, {"rnn_mod"}),
            Stmt({"hk"}, {"initial_state_fn"}),
            Stmt({"hk"}, {"forward_fn"}) >>
    [] c = "HParamControllerLOPT" ->
         << Stmt({"lopt_base"}, {"HParamControllerLOPT"}) >>
    [] c = "demo_a8d86e19" ->
         << Stmt({"HParamControllerLOPT"}, {"lopt"}),
            Stmt({"lopt", "key", "initial_state_fn", "rnn_mod", "hk", "jnp",
                  "forward_fn"}, {"theta"}),
            Stmt({"lopt", "theta", "opt_base"}, {"opt"}),
            Stmt({"jnp"}, {"params"}),
            Stmt({"opt", "params", "HParamControllerInnerOptState", "jnp"},
                 {"opt_state"}),
            Stmt({"jnp"}, {"fake_grads"}),
            Stmt({"opt", "opt_state", "fake_grads", "jnp", "hk", "forward_fn",
                  "rnn_mod", "jax", "HParamControllerInnerOptState"},
                 {"opt_state"}),
            Stmt({"jax", "opt_state"}, {}) >>

\* running statements in order from the namespace b: a statement that reads
\* an unbound name raises NameError and ends the cell
RECURSIVE Exec(_, _)
Exec(stmts, b) ==
  IF stmts = <<>> THEN [bound |-> b, error |-> "none"]
  ELSE IF Head(stmts).reads \subseteq b
       THEN Exec(Tail(stmts), b \cup Head(stmts).binds)
       ELSE [bound |-> b, error |-> "NameError"]

\* ------------------------------------------------------------------------
\* The state machine: one learned optimizer, its Optimizer and the state
\* records the calls of opt.init and opt.update create
\* ------------------------------------------------------------------------

LearnedOptimizers ==
  {MetaSGDWD_new(a[1], a[2]) : a \in MetaSGDWD_args}
    \cup {PerParamMLP_new(d, HiddenSize) : d \in Decays}
    \cup {HParamControllerLOPT_new}

Init ==
  /\ lopt \in LearnedOptimizers
  /\ theta = Absent
  /\ opt = Absent
  /\ states = <<>>
  /\ calls = <<>>
  /\ opt_state = 0
  /\ last_call = Call("new", 0, 0, Absent, Absent, Absent)
  /\ raised = "none"
  /\ bound = {}
  /\ ran = {}
  /\ cell_result = [cell |-> "", error |-> "none"]

\* a faulty record: the update writes the new fields into the record it was
\* given and returns a copy of it
NewRecord_in_place(heap, src, st) ==
  IF src = 0 THEN Append(heap, st)
  ELSE Append([heap EXCEPT ![src] = st], st)

\* a state record is a frozen dataclass: a call that returns one adds a
\* record and leaves the records that exist as they are
NewRecord(heap, src, st) == Append(heap, st)

\* the call returns the record st, which the caller binds to opt_state
Returns(src, st) ==
  /\ states' = NewRecord(states, src, st)
  /\ calls' = Append(calls, last_call')
  /\ opt_state' = Len(states) + 1
  /\ raised' = "none"

\* the call raises e: nothing is returned and the caller keeps its state
Raises(e) ==
  /\ raised' = e
  /\ UNCHANGED <<states, calls, opt_state>>

\* theta = lopt.init(key), before the Optimizer is made
LoptInit(cls, key, th) ==
  /\ lopt.cls = cls
  /\ opt = Absent
  /\ theta' = Given(th)
  /\ last_call' = Call("lopt.init", key, 0, Absent, Absent, Absent)
  /\ raised' = "none"
  /\ UNCHANGED <<lopt, opt, states, calls, opt_state, nbvars>>

MetaSGDWD_init_call(key) ==
  LoptInit("MetaSGDWD", key, MetaSGDWD_init(lopt, key))

PerParamMLP_init_call(key) ==
  LoptInit("PerParamMLP", key, PerParamMLP_init(lopt, key))

HParamControllerLOPT_init_call(key) ==
  LoptInit("HParamControllerLOPT", key, HParamControllerLOPT_init(lopt, key))

\* the meta-parameters opt_fn can be given: the notebook's theta, or trained ones
ThetaArgs(trained) == (IF theta = Absent THEN {} ELSE {theta[1]}) \cup trained

\* opt = lopt.opt_fn(th): the _Opt instance captures th
OptFn(cls, th) ==
  /\ lopt.cls = cls
  /\ opt = Absent
  /\ opt' = Given(th)
  /\ last_call' = Call("opt_fn", 0, 0, Absent, Absent, Absent)
  /\ raised' = "none"
  /\ UNCHANGED <<lopt, theta, states, calls, opt_state, nbvars>>

MetaSGDWD_opt_fn == \E th \in ThetaArgs(MetaSGDWD_trained) : OptFn("MetaSGDWD", th)

PerParamMLP_opt_fn ==
  \E th \in ThetaArgs(PerParamMLP_trained) : OptFn("PerParamMLP", th)

HParamControllerLOPT_opt_fn ==
  \E th \in ThetaArgs(HParamControllerLOPT_trained) :
     OptFn("HParamControllerLOPT", th)

\* a call of a method of opt
OptCall(cls) ==
  /\ lopt.cls = cls
  /\ opt # Absent
  /\ Len(states) < MaxStates
  /\ UNCHANGED <<lopt, theta, opt, nbvars>>

\* opt_state = opt.init(params, model_state=...)
MetaSGDWD_Opt_init_call(params, msarg) ==
  /\ OptCall("MetaSGDWD")
  /\ last_call' = Call("init", 0, 0, params, Absent, msarg)
  /\ Returns(0, MetaSGDWD_Opt_init(opt[1], params, DefaultNone(msarg)))

PerParamMLP_Opt_init_call(params, msarg) ==
  /\ OptCall("PerParamMLP")
  /\ last_call' = Call("init", 0, 0, params, Absent, msarg)
  /\ Returns(0, PerParamMLP_Opt_init(opt[1], params, DefaultNone(msarg)))

HParamControllerLOPT_Opt_init_call(params, msarg) ==
  /\ OptCall("HParamControllerLOPT")
  /\ last_call' = Call("init", 0, 0, params, Absent, msarg)
  /\ Returns(0, HParamControllerLOPT_Opt_init(opt[1], params,
                                               DefaultNone(msarg)))

\* what jax.tree_map raises when the trees differ in structure
tree_map_raises(t1, t2) ==
  IF SameStructure(t1, t2) THEN "none" ELSE "ValueError"

\* the exception MetaSGDWD's update raises on these arguments
MetaSGDWD_update_raises(st, grads) == tree_map_raises(st.params, grads)

\* the exception PerParamMLP's update raises on these arguments
PerParamMLP_update_raises(st, grads) ==
  IF tree_map_raises(st.momentums, grads) # "none"
  THEN tree_map_raises(st.momentums, grads)
  ELSE tree_map_raises(st.params, grads)

\* a faulty update: the assertion on the loss comes after the tree_map
HParamControllerLOPT_update_raises_late(st, grads, loss) ==
  IF tree_map_raises(st.params, grads) # "none"
  THEN tree_map_raises(st.params, grads)
  ELSE IF loss = Absent THEN "AssertionError" ELSE "none"

\* the exception HParamControllerLOPT's update raises on these arguments:
\* the assertion on the loss comes first
HParamControllerLOPT_update_raises(st, grads, loss) ==
  IF loss = Absent THEN "AssertionError"
  ELSE tree_map_raises(st.params, grads)

\* opt_state = opt.update(opt_state, grads, model_state=...), where src is the
\* index of the caller's current state
MetaSGDWD_Opt_update_call(src, grads, msarg) ==
  /\ OptCall("MetaSGDWD")
  /\ src = opt_state
  /\ src \in 1..Len(states)
  /\ last_call' = Call("update", 0, src, grads, Absent, msarg)
  /\ LET e == MetaSGDWD_update_raises(states[src], grads)
     IN  IF e # "none" THEN Raises(e)
         ELSE Returns(src, MetaSGDWD_Opt_update(opt[1], states[src], grads,
                                                DefaultNone(msarg)))

PerParamMLP_Opt_update_call(src, grads, msarg) ==
  /\ OptCall("PerParamMLP")
  /\ src = opt_state
  /\ src \in 1..Len(states)
  /\ last_call' = Call("update", 0, src, grads, Absent, msarg)
  /\ LET e == PerParamMLP_update_raises(states[src], grads)
     IN  IF e # "none" THEN Raises(e)
         ELSE Returns(src, PerParamMLP_Opt_update(lopt, opt[1], states[src],
                                                  grads, DefaultNone(msarg)))

\* opt_state = opt.update(opt_state, grads, loss=..., model_state=...)
HParamControllerLOPT_Opt_update_call(src, grads, loss, msarg) ==
  /\ OptCall("HParamControllerLOPT")
  /\ src = opt_state
  /\ src \in 1..Len(states)
  /\ last_call' = Call("update", 0, src, grads, loss, msarg)
  /\ LET e == HParamControllerLOPT_update_raises(states[src], grads, loss)
     IN  IF e # "none" THEN Raises(e)
         ELSE Returns(src, HParamControllerLOPT_Opt_update(
                             opt[1], states[src], grads, loss[1],
                             DefaultNone(msarg)))

Next ==
  \/ \E key \in Keys : MetaSGDWD_init_call(key)
  \/ \E key \in Keys : PerParamMLP_init_call(key)
  \/ \E key \in Keys : HParamControllerLOPT_init_call(key)
  \/ MetaSGDWD_opt_fn
  \/ PerParamMLP_opt_fn
  \/ HParamControllerLOPT_opt_fn
  \/ \E params \in ParamTrees, msarg \in ModelStateArgs :
       MetaSGDWD_Opt_init_call(params, msarg)
  \/ \E params \in ParamTrees, msarg \in ModelStateArgs :
       PerParamMLP_Opt_init_call(params, msarg)
  \/ \E params \in ParamTrees, msarg \in ModelStateArgs :
       HParamControllerLOPT_Opt_init_call(params, msarg)
  \/ \E src \in 1..MaxStates, grads \in GradTrees, msarg \in ModelStateArgs :
       MetaSGDWD_Opt_update_call(src, grads, msarg)
  \/ \E src \in 1..MaxStates, grads \in GradTrees, msarg \in ModelStateArgs :
       PerParamMLP_Opt_update_call(src, grads, msarg)
  \/ \E src \in 1..MaxStates, grads \in GradTrees, loss \in LossArgs,
        msarg \in ModelStateArgs :
       HParamControllerLOPT_Opt_update_call(src, grads, loss, msarg)

Spec == Init /\ [][Next]_vars

\* Two inner runs of one HParamControllerLOPT optimizer, side by side: the
\* caller keeps two states (records opt_state - 1 and opt_state) and gives
\* both runs the same loss at every step.

InitTwoRuns == Init /\ lopt = HParamControllerLOPT_new

\* state1 = opt.init(params1); state2 = opt.init(params2)
TwoRuns_Opt_init_call(params1, params2) ==
  /\ lopt.cls = "HParamControllerLOPT"
  /\ opt # Absent
  /\ Len(states) + 2 <= 2 * MaxStates
  /\ last_call' = Call("init", 0, 0, params2, Absent, Absent)
  /\ states' =
       NewRecord(
         NewRecord(states, 0,
                   HParamControllerLOPT_Opt_init(opt[1], params1, None)),
         0, HParamControllerLOPT_Opt_init(opt[1], params2, None))
  /\ calls' = calls \o << Call("init", 0, 0, params1, Absent, Absent),
                          Call("init", 0, 0, params2, Absent, Absent) >>
  /\ opt_state' = Len(states) + 2
  /\ raised' = "none"
  /\ UNCHANGED <<lopt, theta, opt, nbvars>>

\* state1 = opt.update(state1, grads1, loss=loss);
\* state2 = opt.update(state2, grads2, loss=loss)
TwoRuns_Opt_update_call(grads1, grads2, loss) ==
  /\ lopt.cls = "HParamControllerLOPT"
  /\ opt # Absent
  /\ Len(states) + 2 <= 2 * MaxStates
  /\ opt_state >= 2
  /\ last_call' = Call("update", 0, opt_state, grads2, loss, Absent)
  /\ UNCHANGED <<lopt, theta, opt, nbvars>>
  /\ LET src1 == opt_state - 1
         src2 == opt_state
         e1 == HParamControllerLOPT_update_raises(states[src1], grads1, loss)
         e2 == HParamControllerLOPT_update_raises(states[src2], grads2, loss)
     IN  IF e1 # "none" THEN Raises(e1)
         ELSE IF e2 # "none" THEN Raises(e2)
         ELSE /\ states' =
                   NewRecord(
                     NewRecord(states, src1,
                               HParamControllerLOPT_Opt_update(
                                 opt[1], states[src1], grads1, loss[1], None)),
                     src2,
                     HParamControllerLOPT_Opt_update(
                       opt[1], states[src2], grads2, loss[1], None))
              /\ calls' =
                   calls \o << Call("update", 0, src1, grads1, loss, Absent),
                               Call("update", 0, src2, grads2, loss, Absent) >>
              /\ opt_state' = Len(states) + 2
              /\ raised' = "none"

NextTwoRuns ==
  \/ \E key \in Keys : HParamControllerLOPT_init_call(key)
  \/ HParamControllerLOPT_opt_fn
  \/ \E params1 \in ParamTrees, params2 \in ParamTrees :
       TwoRuns_Opt_init_call(params1, params2)
  \/ \E grads1 \in GradTrees, grads2 \in GradTrees, loss \in LossArgs :
       TwoRuns_Opt_update_call(grads1, grads2, loss)

SpecTwoRuns == InitTwoRuns /\ [][NextTwoRuns]_vars

\* the user runs the cell c in the kernel
RunCell(c) ==
  /\ LET r == Exec(Cell(c), bound)
     IN  /\ bound' = r.bound
         /\ ran' = IF r.error = "none" THEN ran \cup {c} ELSE ran
         /\ cell_result' = [cell |-> c, error |-> r.error]
  /\ UNCHANGED <<lopt, theta, opt, states, calls, opt_state, last_call, raised>>

NextNotebook == \E c \in CellNames : RunCell(c)

\* the notebook's cells run in any order in one kernel
SpecNotebook == Init /\ [][NextNotebook]_vars

\* ------------------------------------------------------------------------
\* Properties
\* ------------------------------------------------------------------------

Records == 1..Len(states)
InitRecords == {i \in Records : calls[i].op = "init"}
UpdateRecords == {i \in Records : calls[i].op = "update"}

\* the state record the update that made record i was given
Input(i) == states[calls[i].src]

\* the number of updates between opt.init and record i
RECURSIVE Updates(_)
Updates(i) == IF calls[i].op = "init" THEN 0 ELSE 1 + Updates(calls[i].src)

\* the opt.init record that record i descends from
RECURSIVE Root(_)
Root(i) == IF calls[i].op = "init" THEN i ELSE Root(calls[i].src)

\* no update between opt.init and record i was given a model_state argument
RECURSIVE ModelStateOmitted(_)
ModelStateOmitted(i) ==
  \/ calls[i].op = "init"
  \/ calls[i].model_state = Absent /\ ModelStateOmitted(calls[i].src)

\* C1: the state opt.init returns has iteration 0, an update returns a state
\* whose iteration is its input state's iteration plus one, and so the
\* iteration of a state is the number of updates made since opt.init.
C1_IterationCounts ==
  /\ \A i \in InitRecords : states[i].iteration = 0
  /\ \A i \in UpdateRecords : states[i].iteration = Input(i).iteration + 1
  /\ \A i \in Records : states[i].iteration = Updates(i)

C1_Witness ==
  \E i \in UpdateRecords : calls[i].src \in UpdateRecords /\ states[i].iteration = 2

\* C3 as stated: after opt.init(params, model_state=s) and updates that give no
\* model_state argument, the state's model_state is still s.
C3_ModelStateKept ==
  \A i \in Records :
    ModelStateOmitted(i) =>
      states[i].model_state = DefaultNone(calls[Root(i)].model_state)

\* C3 amended: the state opt.init(params, model_state=s) returns has
\* model_state s, and a state returned by an update that gives no model_state
\* argument has model_state None, whatever s was.
C3_ModelStateDropped ==
  \A i \in Records :
    ModelStateOmitted(i) =>
      states[i].model_state =
        (IF calls[i].op = "init" THEN DefaultNone(calls[i].model_state)
         ELSE None)

C3_Witness ==
  \E i \in UpdateRecords :
    /\ ModelStateOmitted(i)
    /\ calls[Root(i)].model_state = Given("bn")
    /\ states[Root(i)].model_state = "bn"
    /\ states[i].model_state = None

\* C4: HParamControllerLOPT's update called without a loss raises an
\* AssertionError, whatever its other arguments, returns no state and leaves
\* the caller's state as it was; called with a loss (and gradients of the
\* params' structure) it returns a new state.
C4_LossRequired ==
  [][(lopt.cls = "HParamControllerLOPT" /\ last_call'.op = "update") =>
       IF last_call'.loss = Absent
       THEN /\ raised' = "AssertionError"
            /\ states' = states
            /\ opt_state' = opt_state
       ELSE SameStructure(states[opt_state].params, last_call'.tree) =>
              /\ raised' = "none"
              /\ Len(states') = Len(states) + 1
              /\ opt_state' = Len(states')]_vars

C4_Witness ==
  /\ lopt.cls = "HParamControllerLOPT"
  /\ last_call.op = "update"
  /\ last_call.loss = Absent
  /\ ~SameStructure(states[opt_state].params, last_call.tree)
  /\ raised = "AssertionError"
  /\ opt_state \in UpdateRecords

\* C5: an update leaves every existing state record, the one it was given
\* included, with the field values it had.
C5_RecordsNeverMutated ==
  [][\A i \in Records : i <= Len(states') /\ states'[i] = states[i]]_vars

C5_Witness ==
  \E i \in UpdateRecords :
    calls[i].src \in UpdateRecords /\ states[i] # Input(i)

\* C2 as stated: in PerParamMLP's update every new parameter value is the old
\* value minus the step the MLP gives for (gradient, new momentum, old value)
\* as its (gradient, momentum, parameter) inputs.
C2_StepFromGradMomentumParam ==
  lopt.cls = "PerParamMLP" =>
    \A i \in UpdateRecords : \A k \in DOMAIN states[i].params :
      states[i].params[k] =
        Sub(Input(i).params[k],
            forward(opt[1].nn, calls[i].tree[k], states[i].momentums[k],
                    Input(i).params[k]))

\* C6: MetaSGDWD's update maps every leaf p with gradient g to
\* p - g*lr - p*wd with lr = exp(theta.log_lr) and wd = exp(theta.log_wd) of
\* the theta given to opt_fn; when that theta is the one MetaSGDWD.init
\* returned (for any key), lr and wd are the constructor's initial_lr and
\* initial_wd.
C6_SGDWithWeightDecay ==
  lopt.cls = "MetaSGDWD" =>
    \A i \in UpdateRecords : \A k \in DOMAIN states[i].params :
      LET p == Input(i).params[k]
          g == calls[i].tree[k]
      IN  /\ states[i].params[k] =
               Sub(Sub(p, Mul(g, Exp(opt[1].log_lr))),
                   Mul(p, Exp(opt[1].log_wd)))
          /\ (theta # Absent /\ opt = theta) =>
               states[i].params[k] =
                 Sub(Sub(p, Mul(g, lopt.initial_lr)), Mul(p, lopt.initial_wd))

C6_Witness ==
  /\ lopt.cls = "MetaSGDWD"
  /\ lopt.initial_lr = Q(1, 1000)
  /\ theta # Absent
  /\ opt = theta
  /\ \E i \in UpdateRecords :
       /\ calls[i].src \in UpdateRecords
       /\ states[i].params # Input(i).params

\* C8: in HParamControllerLOPT, opt.init and opt.update leave theta (the
\* notebook's and the one the Optimizer captured) as it was, and every state
\* opt.init returns, also after updates, has theta's initial_rnn_hidden_state
\* as its rnn_hidden_state.
C8_ThetaUnchanged ==
  /\ [](lopt.cls = "HParamControllerLOPT" =>
         \A i \in InitRecords :
           states[i].rnn_hidden_state = opt[1].initial_rnn_hidden_state)
  /\ [][(lopt.cls = "HParamControllerLOPT"
          /\ last_call'.op \in {"init", "update"}) =>
           (opt' = opt /\ theta' = theta)]_vars

C8_Witness ==
  /\ lopt.cls = "HParamControllerLOPT"
  /\ opt # Absent
  /\ opt[1].initial_rnn_hidden_state # initial_state_fn
  /\ \E i \in UpdateRecords, j \in InitRecords :
       /\ i < j
       /\ states[i].rnn_hidden_state # opt[1].initial_rnn_hidden_state
       /\ states[j].rnn_hidden_state = opt[1].initial_rnn_hidden_state

\* the RNN folded over the losses of the updates between opt.init and record i
RECURSIVE FoldedHidden(_)
FoldedHidden(i) ==
  IF calls[i].op = "init" THEN opt[1].initial_rnn_hidden_state
  ELSE forward_fn(opt[1].rnn_params, FoldedHidden(calls[i].src),
                  calls[i].loss[1])[1]

\* C9: HParamControllerLOPT's update gives the RNN theta.rnn_params, the
\* input state's rnn_hidden_state and the loss; the next hidden state it
\* returns is the new state's rnn_hidden_state, the lr it returns is used for
\* every leaf (p - g*lr), and the hidden state after updates with losses
\* l1..ln is the RNN folded over l1..ln from theta's initial hidden state.
C9_OneRNNCall ==
  lopt.cls = "HParamControllerLOPT" =>
    \A i \in UpdateRecords :
      LET out == forward_fn(opt[1].rnn_params, Input(i).rnn_hidden_state,
                            calls[i].loss[1])
      IN  /\ states[i].rnn_hidden_state = out[1]
          /\ \A k \in DOMAIN states[i].params :
               states[i].params[k] =
                 Sub(Input(i).params[k], Mul(calls[i].tree[k], out[2]))
          /\ states[i].rnn_hidden_state = FoldedHidden(i)

C9_Witness ==
  /\ lopt.cls = "HParamControllerLOPT"
  /\ \E i \in UpdateRecords :
       /\ calls[i].src \in UpdateRecords
       /\ calls[i].loss # calls[calls[i].src].loss
       /\ states[i].rnn_hidden_state # Input(i).rnn_hidden_state
       /\ Input(i).rnn_hidden_state # opt[1].initial_rnn_hidden_state
       /\ Cardinality(DOMAIN states[i].params) = 2

\* C10: PerParamMLP's opt.init makes a zero momentum for every leaf of the
\* params; an update sets every momentum to m*decay + g*(1 - decay), stores
\* these new momentums in the state it returns, and computes the new params
\* from these same new momentums.
C10_Momentums ==
  lopt.cls = "PerParamMLP" =>
    /\ \A i \in InitRecords :
         /\ DOMAIN states[i].momentums = DOMAIN states[i].params
         /\ \A k \in DOMAIN states[i].momentums :
              states[i].momentums[k] = Whole(0)
    /\ \A i \in UpdateRecords : \A k \in DOMAIN states[i].momentums :
         LET m == Input(i).momentums[k]
             g == calls[i].tree[k]
             next_m == Add(Mul(m, lopt.decay),
                           Mul(g, Sub(Whole(1), lopt.decay)))
         IN  /\ states[i].momentums[k] = next_m
             /\ states[i].params[k] =
                  Sub(next_m, forward(opt[1].nn, Input(i).params[k], g, next_m))

C10_Witness ==
  /\ lopt.cls = "PerParamMLP"
  /\ lopt.decay = Q(9, 10)
  /\ \E i \in UpdateRecords :
       /\ calls[i].src \in UpdateRecords
       /\ \A k \in DOMAIN states[i].momentums :
            /\ Input(i).momentums[k] # Whole(0)
            /\ states[i].momentums[k] # Input(i).momentums[k]

\* the import cell and the cells of c's example that precede c in the notebook
Before(c) ==
  {"imports"} \cup
    {CellOrder[i] : i \in {i \in 1..Len(CellOrder) :
        /\ Example(CellOrder[i]) = Example(c)
        /\ \E j \in 1..Len(CellOrder) : CellOrder[j] = c /\ i < j}}

\* C7 as stated: a cell run after the import cell and the preceding cells of
\* its own example finds every name it reads bound (no NameError), whichever
\* cells of the other examples ran or did not run.
C7_ExamplesIndependent ==
  (cell_result.error = "NameError") => ~(Before(cell_result.cell) \subseteq ran)

\* C11: the model_state of the state an update returns is the model_state
\* argument of that update call, None when the argument is omitted, whatever
\* the model_state of the state the update was given.
C11_ModelStateIsArgument ==
  \A i \in UpdateRecords :
    states[i].model_state = DefaultNone(calls[i].model_state)

C11_Witness ==
  \E i \in UpdateRecords :
    /\ calls[i].src \in UpdateRecords
    /\ states[Root(i)].model_state = "bn"
    /\ calls[calls[i].src].model_state = Absent
    /\ Input(i).model_state = None
    /\ calls[i].model_state = Given("bn")
    /\ states[i].model_state = "bn"

\* the losses of the updates between opt.init and record i, in order
RECURSIVE LossSeq(_)
LossSeq(i) ==
  IF calls[i].op = "init" THEN <<>>
  ELSE Append(LossSeq(calls[i].src), calls[i].loss[1])

\* C12: in HParamControllerLOPT, two states reached from opt.init by updates
\* with the same sequence of losses have the same rnn_hidden_state, and their
\* last updates used the same learning rate (the step p - p' of any leaf is
\* in the same ratio to its gradient g), whatever the params and gradients.
C12_OnlyLossesMatter ==
  lopt.cls = "HParamControllerLOPT" =>
    \A i, j \in Records :
      LossSeq(i) = LossSeq(j) =>
        /\ states[i].rnn_hidden_state = states[j].rnn_hidden_state
        /\ (i \in UpdateRecords /\ j \in UpdateRecords) =>
             \A ki \in DOMAIN states[i].params, kj \in DOMAIN states[j].params :
               Mul(Sub(Input(i).params[ki], states[i].params[ki]),
                   calls[j].tree[kj])
                 = Mul(Sub(Input(j).params[kj], states[j].params[kj]),
                       calls[i].tree[ki])

C12_Witness ==
  /\ lopt.cls = "HParamControllerLOPT"
  /\ \E i, j \in UpdateRecords :
       /\ Root(i) # Root(j)
       /\ calls[Root(i)].tree # calls[Root(j)].tree
       /\ calls[i].tree # calls[j].tree
       /\ Len(LossSeq(i)) = 2
       /\ LossSeq(i) = LossSeq(j)
       /\ LossSeq(i)[1] # LossSeq(i)[2]
       /\ states[i].params # states[j].params
       /\ states[i].rnn_hidden_state # opt[1].initial_rnn_hidden_state
       /\ states[i].rnn_hidden_state # Input(i).rnn_hidden_state

\* C13: an update whose gradients have the keys of the state's params returns
\* a state whose params have these same keys, and in PerParamMLP so do its
\* momentums; so the keys of the params of every state are the keys of the
\* params given to the opt.init it descends from.
C13_TreeStructureKept ==
  /\ \A i \in UpdateRecords :
       SameStructure(calls[i].tree, Input(i).params) =>
         /\ DOMAIN states[i].params = DOMAIN Input(i).params
         /\ lopt.cls = "PerParamMLP" =>
              DOMAIN states[i].momentums = DOMAIN Input(i).params
  /\ \A i \in Records :
       /\ DOMAIN states[i].params = DOMAIN calls[Root(i)].tree
       /\ lopt.cls = "PerParamMLP" =>
            DOMAIN states[i].momentums = DOMAIN calls[Root(i)].tree

C13_Witness ==
  /\ lopt.cls = "PerParamMLP"
  /\ \E i \in UpdateRecords :
       /\ calls[i].src \in UpdateRecords
       /\ SameStructure(calls[i].tree, Input(i).params)
       /\ DOMAIN states[i].params = {"a", "b"}
       /\ DOMAIN states[i].momentums = {"a", "b"}
       /\ DOMAIN calls[Root(i)].tree = {"a", "b"}
       /\ \A k \in DOMAIN states[i].params :
            states[i].params[k] # states[Root(i)].params[k]

====
